---- MODULE Spec2Model ----
(***************************************************************************)
(* Model of the proxy orchestrator of yomariano/youtube-downloader         *)
(* (src/unnamed/part_000, first copy, lines 1-199): the provider table     *)
(* PROXY_PROVIDERS, getActiveProviders, getProxyWithFallback and the       *)
(* retry loop downloadWithRetry.                                           *)
(*                                                                         *)
(* One behaviour is one process: the environment is read when the module   *)
(* is loaded, then downloadWithRetry is called, one call after the other   *)
(* (a new call may start whenever the previous one has settled).           *)
(* An action is one run-to-completion segment of the async function        *)
(* between two awaits.                                                     *)
(*                                                                         *)
(* Further specifications over the same variables add a configuration      *)
(* that changes after load (SpecReload), the provider table as an input    *)
(* of getActiveProviders (SpecTable), a second interleaved call            *)
(* (SpecConcurrent), a caller that gives a call up (SpecCancel) or passes  *)
(* delays (SpecPolicy), and the download endpoint of the server,           *)
(* src/server/index.js lines 128-218 (SpecDownload).                       *)
(***************************************************************************)
EXTENDS Integers, Sequences, FiniteSets, TLC

VARIABLES
    priorities,   \* PROXY_PROVIDERS[name].priority
    types,        \* PROXY_PROVIDERS[name].type
    listed,       \* `providers`: the list getActiveProviders returned last
    env,          \* process.env: the set of variables holding a non-empty value
    scraping,     \* the BrightData base username contains 'scraping_browser'
    enabled,      \* PROXY_PROVIDERS[name].enabled, computed when the module loads
    omitted,      \* the current call left maxAttempts out (default 3)
    maxAttempts,  \* parameter of the current call
    attempt,      \* loop variable of the current call
    pc,           \* position of the current call
    proxyConfig,  \* value getProxyWithFallback returned for this attempt
    inflight,     \* URL handed to the outstanding downloadFunc invocation
    timer,        \* pending setTimeout delay in ms, 0 when none
    events,       \* history of the current call
    result,       \* how the current call's promise settled
    other,        \* locals of a second call that is suspended meanwhile
    policy,       \* delays the caller passes after maxAttempts (surplus arguments)
    abandonedAt,  \* length of the history when the caller gave the call up, -1 before
    req,          \* POST /api/download requests of the server (server/index.js)
    files,        \* state of each file of the downloads directory
    cleanups,     \* pending setTimeout(..., 60000) callbacks that unlink a file
    infoReq,      \* POST /api/video-info requests of the server
    credentials,  \* values of the proxy variables, character by character
    logged        \* strings written with console.log while building a proxy URL

\* The variables no segment of downloadWithRetry assigns.
caller == <<policy, abandonedAt>>

server == <<req, files, cleanups, infoReq>>

logging == <<credentials, logged>>

aux == <<priorities, types, other, caller, server, logging>>

vars == <<aux, listed, env, scraping, enabled, omitted, maxAttempts, attempt, pc,
          proxyConfig, inflight, timer, events, result>>

----------------------------------------------------------------------------
\* Bounds of the model.

\* Largest maxAttempts a call is given.
MaxAttemptsBound == 6

\* Number of POST /api/download requests the server receives.
MaxRequests == 2

\* Largest maxAttempts of a call made with a delay policy.
MaxPolicyAttempts == 3

\* Largest maxAttempts of a call in the specifications that add a second
\* source of interleaving (configuration changes, a second call, a caller
\* that gives the call up).
MaxShortAttempts == 2

\* Largest maxAttempts passed to the two copies of the orchestrator run side
\* by side.
MaxCopyAttempts == 4

----------------------------------------------------------------------------
\* Configuration: process.env as read by the provider table.

EnvVars ==
    { "PROXY_USERNAME", "PROXY_PASSWORD", "PROXY_HOST", "PROXY_PORT",
      "BRIGHTDATA_USERNAME", "BRIGHTDATA_PASSWORD", "BRIGHTDATA_HOST",
      "BRIGHTDATA_PORT",
      "SMARTPROXY_USERNAME", "SMARTPROXY_PASSWORD",
      "OXYLABS_USERNAME", "OXYLABS_PASSWORD" }

\* Value of `process.env.A || process.env.B`: the name of the variable whose
\* value is used, "undefined" when neither is set.
EnvOr(e, a, b) == IF a \in e THEN a ELSE IF b \in e THEN b ELSE "undefined"

\* Value of `process.env.A` inside a template string.
EnvVal(e, a) == IF a \in e THEN a ELSE "undefined"

\* Variables that are configured together in the environments explored: a
\* user name on its own, the connection parameters of one naming family, a
\* password on its own.
EnvBlocks ==
    { {"PROXY_USERNAME"}, {"PROXY_PASSWORD", "PROXY_HOST", "PROXY_PORT"},
      {"BRIGHTDATA_USERNAME"},
      {"BRIGHTDATA_PASSWORD", "BRIGHTDATA_HOST", "BRIGHTDATA_PORT"},
      {"SMARTPROXY_USERNAME"}, {"SMARTPROXY_PASSWORD"},
      {"OXYLABS_USERNAME"}, {"OXYLABS_PASSWORD"} }

Environments == { UNION B : B \in SUBSET EnvBlocks }

\* Registration order of the table (Object.entries order).
ProviderNames == <<"brightdata", "smartproxy", "oxylabs", "freeProxy">>

Providers == { ProviderNames[i] : i \in 1..Len(ProviderNames) }

\* The `priority:` fields of the table.
PriorityTable ==
    [name \in Providers |->
        CASE name = "brightdata" -> 1
          [] name = "smartproxy" -> 2
          [] name = "oxylabs"    -> 3
          [] name = "freeProxy"  -> 99]

priority(name) == priorities[name]

\* The `type:` fields of the table.
TypeTable ==
    [name \in Providers |->
        IF name = "freeProxy" THEN "datacenter" ELSE "residential"]

\* The `enabled:` initialisers, evaluated once at module load.
enabledAtLoad(e, name) ==
    CASE name = "brightdata" ->
            ("PROXY_USERNAME" \in e) \/ ("BRIGHTDATA_USERNAME" \in e)
      [] name = "smartproxy" -> "SMARTPROXY_USERNAME" \in e
      [] name = "oxylabs"    -> "OXYLABS_USERNAME" \in e
      [] name = "freeProxy"  -> TRUE

\* Session tokens generateSessionId can return; Math.random().toString(36)
\* .substring(7) is the empty string for a short expansion.
Tokens == {"", "s1", "s2"}

\* A route URL is <<username, session suffix, password, host, port>>;
\* null is the empty tuple.
NullUrl == <<>>

\* The token of the suffix `-session-${sessionId}` appended to the username;
\* "" when the username is left without a suffix (sessionId is falsy).
SessionSuffix(sessionId) == IF sessionId # "" THEN sessionId ELSE ""

buildUrl(name, sessionId) ==
    CASE name = "brightdata" ->
            LET baseUsername == EnvOr(env, "PROXY_USERNAME", "BRIGHTDATA_USERNAME")
                password == EnvOr(env, "PROXY_PASSWORD", "BRIGHTDATA_PASSWORD")
                host == EnvOr(env, "PROXY_HOST", "BRIGHTDATA_HOST")
                port == EnvOr(env, "PROXY_PORT", "BRIGHTDATA_PORT")
            IN  IF \/ baseUsername = "undefined" \/ password = "undefined"
                   \/ host = "undefined" \/ port = "undefined"
                THEN NullUrl
                ELSE <<baseUsername,
                       IF scraping THEN "" ELSE SessionSuffix(sessionId),
                       password, host, port>>
      [] name = "smartproxy" ->
            <<EnvVal(env, "SMARTPROXY_USERNAME"), SessionSuffix(sessionId),
              EnvVal(env, "SMARTPROXY_PASSWORD"), "gate.smartproxy.com", "7000">>
      [] name = "oxylabs" ->
            <<EnvVal(env, "OXYLABS_USERNAME"), "",
              EnvVal(env, "OXYLABS_PASSWORD"), "pr.oxylabs.io", "7777">>
      [] name = "freeProxy" -> NullUrl

----------------------------------------------------------------------------
\* getActiveProviders: the enabled entries, sorted by priority.

\* Insertion that puts an entry before the entries of equal priority.
RECURSIVE InsertByPriority_unstable(_, _)
InsertByPriority_unstable(s, x) ==
    IF s = <<>> THEN <<x>>
    ELSE IF priority(x) <= priority(Head(s)) THEN <<x>> \o s
    ELSE <<Head(s)>> \o InsertByPriority_unstable(Tail(s), x)

RECURSIVE InsertByPriority(_, _)
InsertByPriority(s, x) ==
    IF s = <<>> THEN <<x>>
    ELSE IF priority(x) < priority(Head(s)) THEN <<x>> \o s
    ELSE <<Head(s)>> \o InsertByPriority(Tail(s), x)

RECURSIVE SortByPriority(_)
SortByPriority(s) ==
    IF s = <<>> THEN <<>>
    ELSE InsertByPriority(SortByPriority(SubSeq(s, 1, Len(s) - 1)), s[Len(s)])

\* A filter that reads the environment on every call.
IsEnabled_live(name) == enabledAtLoad(env, name)

IsEnabled(name) == enabled[name]

getActiveProviders == SortByPriority(SelectSeq(ProviderNames, IsEnabled))

----------------------------------------------------------------------------
\* getProxyWithFallback and its result.

NullConfig == [url |-> NullUrl, provider |-> "", sessionId |-> "", attempt |-> -1]

\* getFreeProxy: both paths return null.
getFreeProxy == NullConfig

\* providerIndex that walks the list once and then stays on its last entry.
providerIndex_sticky(a, n) == IF a < n THEN a ELSE n - 1

\* const providerIndex = attempt % providers.length
providerIndex(a, n) == a % n

\* Provider chosen for an attempt, "none" when the list is empty.
selectedProvider(a) ==
    LET providers == getActiveProviders
    IN  IF Len(providers) = 0 THEN "none"
        ELSE providers[providerIndex(a, Len(providers)) + 1]

\* getProxyWithFallback without the `if (!proxyUrl) return null` check.
getProxyWithFallback_nocheck(a, sessionId) ==
    LET providerName == selectedProvider(a)
    IN  IF providerName = "none" THEN NullConfig
        ELSE IF providerName = "freeProxy" THEN getFreeProxy
        ELSE [url |-> buildUrl(providerName, sessionId), provider |-> providerName,
              sessionId |-> sessionId, attempt |-> a]

\* Result of getProxyWithFallback(a) when generateSessionId returns sessionId.
getProxyWithFallback(a, sessionId) ==
    LET providerName == selectedProvider(a)
    IN  IF providerName = "none" THEN NullConfig
        ELSE IF providerName = "freeProxy" THEN getFreeProxy
        ELSE LET proxyUrl == buildUrl(providerName, sessionId)
             IN  IF proxyUrl = NullUrl THEN NullConfig
                 ELSE [url |-> proxyUrl, provider |-> providerName,
                       sessionId |-> sessionId, attempt |-> a]

----------------------------------------------------------------------------
\* History records.

\* kind: "select" (getProxyWithFallback returned), "fetch" (downloadFunc was
\* invoked), "settle" (that invocation resolved or rejected), "wait"
\* (setTimeout started), "fire" (the timer fired).  fallback marks the direct
\* invocation made after the last attempt.
Ev(kind, a, provider, routed, fallback, outcome, ms) ==
    [kind |-> kind, attempt |-> a, provider |-> provider, routed |-> routed,
     fallback |-> fallback, outcome |-> outcome, ms |-> ms]

Pending == [kind |-> "pending", value |-> -1, error |-> "none", cause |-> -1]

\* The promise resolved with the value of invocation number k (-1: undefined).
Resolved(k) == [kind |-> "resolved", value |-> k, error |-> "none", cause |-> -1]

\* The promise rejected; cause is the invocation whose error message the
\* error carries (-1: none).
Rejected(error, k) == [kind |-> "rejected", value |-> -1, error |-> error, cause |-> k]

\* Number of downloadFunc invocations made so far in the current call.
IsFetch(e) == e.kind = "fetch"

Invocations == Len(SelectSeq(events, IsFetch))

\* What a downloadFunc invocation can do: resolve, reject with a value whose
\* .message can be read (an Error, a string, an object), or reject with
\* null/undefined.
Outcomes == {"ok", "error", "nullish"}

\* waitTime computed from the delays the caller passed.
waitTime_policy(a) ==
    IF policy.baseDelayMs * (2 ^ a) < policy.maxDelayMs
    THEN policy.baseDelayMs * (2 ^ a)
    ELSE policy.maxDelayMs

\* waitTime that wraps around at the cap instead of stopping there.
waitTime_wrap(a) == (1000 * (2 ^ a)) % 10000

\* waitTime without the Math.min cap.
waitTime_nocap(a) == 1000 * (2 ^ a)

\* const waitTime = Math.min(1000 * Math.pow(2, attempt), 10000)
waitTime(a) == IF 1000 * (2 ^ a) < 10000 THEN 1000 * (2 ^ a) ELSE 10000

\* maxAttempts = 3 when the argument is left out
defaultMaxAttempts == 3

----------------------------------------------------------------------------
\* Initial state: the module has been loaded, no call was made.

\* The locals of the call whose segment runs, as one record.
Current ==
    [omitted |-> omitted, maxAttempts |-> maxAttempts, attempt |-> attempt,
     pc |-> pc, proxyConfig |-> proxyConfig, inflight |-> inflight,
     timer |-> timer, events |-> events, result |-> result]

\* The locals of a call that has not been made.
NoCall ==
    [omitted |-> FALSE, maxAttempts |-> 0, attempt |-> 0, pc |-> "idle",
     proxyConfig |-> NullConfig, inflight |-> NullUrl, timer |-> 0,
     events |-> <<>>, result |-> Pending]

\* File names the download endpoint builds.  A title is a sequence of
\* characters; "a" and "_" stand for word characters, " " for whitespace,
\* "!" for any other character.
RawTitles == { <<"a">>, <<"a", "!">>, <<"a", " ", " ">>, <<"a", "_">> }

\* [\w\s-]: the characters the first replace keeps.
IsKept(c) == c \in {"a", "_", " ", "-"}

RECURSIVE DropSpaces(_)
DropSpaces(s) ==
    IF s # <<>> /\ Head(s) = " " THEN DropSpaces(Tail(s)) ELSE s

\* .replace(/\s+/g, '_')
RECURSIVE Underscore(_)
Underscore(s) ==
    IF s = <<>> THEN <<>>
    ELSE IF Head(s) = " " THEN <<"_">> \o Underscore(DropSpaces(s))
    ELSE <<Head(s)>> \o Underscore(Tail(s))

\* title.replace(/[^\w\s-]/g, '').replace(/\s+/g, '_')
Sanitize(title) == Underscore(SelectSeq(title, IsKept))

\* outputFormat values a client sends; anything but 'mp3' takes the MP4 branch.
OutputFormats == {"mp3", "mp4", "undefined"}

Extension(outputFormat) == IF outputFormat = "mp3" THEN "mp3" ELSE "mp4"

\* path.join(downloadsDir, `${title}.${ext}`)
FilePath(title, outputFormat) == <<Sanitize(title), Extension(outputFormat)>>

FilePaths == { FilePath(t, f) : t \in RawTitles, f \in OutputFormats }

Requests == 1..MaxRequests

\* A request the server has not received.
NoRequest == [pc |-> "none", outputFormat |-> "", filePath |-> <<>>, status |-> 0]

\* The caller passes nothing after maxAttempts.
NoPolicy == [baseDelayMs |-> -1, maxDelayMs |-> -1]

\* A video-info request the server has not received.
NoInfoRequest ==
    [pc |-> "none", url |-> "", fetched |-> FALSE, responses |-> 0, status |-> 0,
     body |-> {}]

\* The values of the proxy variables are not looked at.
NoCredentials == [username |-> <<>>, password |-> <<>>, host |-> <<>>, port |-> <<>>]

\* The server listens, has received no request, and its downloads directory
\* is empty; nothing has been logged.
Listening ==
    /\ credentials = NoCredentials
    /\ logged = {}
    /\ req = [r \in Requests |-> NoRequest]
    /\ infoReq = [r \in Requests |-> NoInfoRequest]
    /\ files = [f \in FilePaths |-> "absent"]
    /\ cleanups = {}

\* The module has been loaded and no call has been made.
Loaded ==
    /\ Listening
    /\ priorities = PriorityTable
    /\ types = TypeTable
    /\ other = NoCall
    /\ abandonedAt = -1
    /\ listed = <<>>
    /\ env \in Environments
    /\ scraping \in
         IF ("PROXY_USERNAME" \in env) \/ ("BRIGHTDATA_USERNAME" \in env)
         THEN BOOLEAN ELSE {FALSE}
    /\ enabled = [name \in Providers |-> enabledAtLoad(env, name)]
    /\ omitted = FALSE
    /\ maxAttempts = 0
    /\ attempt = 0
    /\ pc = "idle"
    /\ proxyConfig = NullConfig
    /\ inflight = NullUrl
    /\ timer = 0
    /\ events = <<>>
    /\ result = Pending

Init == Loaded /\ policy = NoPolicy

----------------------------------------------------------------------------
\* downloadWithRetry, one action per segment between awaits.

\* Loop test of a loop that runs its body once before it tests.
LoopHead_atLeastOnce(a, m) ==
    IF a < m \/ a = 0
    THEN /\ pc' = "select"
         /\ result' = Pending
    ELSE /\ pc' = "done"
         /\ result' = Resolved(-1)

\* The for-loop test `attempt < maxAttempts`: enter the body or fall out of
\* the loop and return undefined.
LoopHead(a, m) ==
    IF a < m
    THEN /\ pc' = "select"
         /\ result' = Pending
    ELSE /\ pc' = "done"
         /\ result' = Resolved(-1)

\* A caller starts downloadWithRetry(downloadFunc, arg).
Call(arg, isOmitted) ==
    /\ pc \in {"idle", "done"}
    /\ omitted' = isOmitted
    /\ maxAttempts' = arg
    /\ attempt' = 0
    /\ proxyConfig' = NullConfig
    /\ inflight' = NullUrl
    /\ timer' = 0
    /\ events' = <<>>
    /\ LoopHead(0, arg)
    /\ UNCHANGED <<aux, listed, env, scraping, enabled>>

\* Select that switches a provider off in the table when its buildUrl
\* returned null.
Select_disable ==
    /\ pc = "select"
    /\ \E sessionId \in Tokens :
         proxyConfig' = getProxyWithFallback(attempt, sessionId)
    /\ events' = Append(events,
                   Ev("select", attempt, selectedProvider(attempt), FALSE, FALSE, "", 0))
    /\ listed' = getActiveProviders
    /\ pc' = "invoke"
    /\ enabled' = IF selectedProvider(attempt) # "freeProxy"
                     /\ buildUrl(selectedProvider(attempt), "") = NullUrl
                  THEN [enabled EXCEPT ![selectedProvider(attempt)] = FALSE]
                  ELSE enabled
    /\ UNCHANGED <<aux, env, scraping, omitted, maxAttempts, attempt,
                   inflight, timer, result>>

\* const proxyConfig = await getProxyWithFallback(attempt)
Select ==
    /\ pc = "select"
    /\ \E sessionId \in Tokens :
         proxyConfig' = getProxyWithFallback(attempt, sessionId)
    /\ events' = Append(events,
                   Ev("select", attempt, selectedProvider(attempt), FALSE, FALSE, "", 0))
    /\ listed' = getActiveProviders
    /\ pc' = "invoke"
    /\ UNCHANGED <<aux, env, scraping, enabled, omitted, maxAttempts, attempt,
                   inflight, timer, result>>

\* Catch that starts the timer without awaiting it: the loop goes on while
\* the timer is pending.
Catch_nowait(outcome, k, settled) ==
    IF outcome = "nullish"
    THEN /\ result' = Rejected("TypeError", -1)
         /\ pc' = "done"
         /\ events' = settled
         /\ timer' = 0
    ELSE IF attempt = maxAttempts - 1
    THEN /\ events' = Append(settled, Ev("fetch", attempt, "", FALSE, TRUE, "", 0))
         /\ pc' = "fallback"
         /\ timer' = 0
         /\ result' = Pending
    ELSE /\ events' = Append(settled, Ev("wait", attempt, "", FALSE, FALSE, "", waitTime(attempt)))
         /\ timer' = waitTime(attempt)
         /\ pc' = "select"
         /\ result' = Pending

\* The catch clause of the loop body, entered with the rejection value of the
\* attempt's invocation (number k).
Catch(outcome, k, settled) ==
    IF outcome = "nullish"
    THEN \* error.message throws a TypeError inside the catch clause
         /\ result' = Rejected("TypeError", -1)
         /\ pc' = "done"
         /\ events' = settled
         /\ timer' = 0
    ELSE IF attempt = maxAttempts - 1
    THEN \* last attempt: downloadFunc(null)
         /\ events' = Append(settled, Ev("fetch", attempt, "", FALSE, TRUE, "", 0))
         /\ pc' = "fallback"
         /\ timer' = 0
         /\ result' = Pending
    ELSE \* setTimeout(resolve, waitTime)
         /\ events' = Append(settled, Ev("wait", attempt, "", FALSE, FALSE, "", waitTime(attempt)))
         /\ timer' = waitTime(attempt)
         /\ pc' = "waiting"
         /\ result' = Pending

\* Invoke with the no-route case treated as a failed attempt: no invocation
\* is made and the catch clause runs.
Invoke_skipNull ==
    /\ pc = "invoke"
    /\ IF proxyConfig = NullConfig
       THEN /\ Catch("error", Invocations, events)
            /\ inflight' = NullUrl
       ELSE /\ inflight' = proxyConfig.url
            /\ events' = Append(events,
                           Ev("fetch", attempt, proxyConfig.provider, TRUE, FALSE, "", 0))
            /\ pc' = "fetching"
            /\ UNCHANGED <<timer, result>>
    /\ UNCHANGED <<aux, listed, env, scraping, enabled, omitted, maxAttempts, attempt,
                   proxyConfig>>

\* downloadFunc(null) when there is no proxyConfig, else
\* downloadFunc(proxyConfig.url)
Invoke ==
    /\ pc = "invoke"
    /\ inflight' = proxyConfig.url
    /\ events' = Append(events,
                   Ev("fetch", attempt, proxyConfig.provider,
                      proxyConfig # NullConfig, FALSE, "", 0))
    /\ pc' = "fetching"
    /\ UNCHANGED <<aux, listed, env, scraping, enabled, omitted, maxAttempts, attempt,
                   proxyConfig, timer, result>>

\* Return that keeps the value but goes on to the direct connection.
Return_continue(k, settled) ==
    /\ result' = Pending
    /\ pc' = "fallback"
    /\ events' = Append(settled, Ev("fetch", attempt, "", FALSE, TRUE, "", 0))
    /\ timer' = 0

\* `return result` / `return await downloadFunc(null)`: the call resolves with
\* the value of invocation number k.
Return(k, settled) ==
    /\ result' = Resolved(k)
    /\ pc' = "done"
    /\ events' = settled
    /\ timer' = 0

\* The attempt's downloadFunc invocation settles.
Settle(outcome) ==
    /\ pc = "fetching"
    /\ LET k == Invocations - 1
           settled == Append(events,
                        Ev("settle", attempt, proxyConfig.provider,
                           proxyConfig # NullConfig, FALSE, outcome, 0))
       IN  IF outcome = "ok"
           THEN Return(k, settled)
           ELSE Catch(outcome, k, settled)
    /\ inflight' = NullUrl
    /\ proxyConfig' = NullConfig
    /\ UNCHANGED <<aux, listed, env, scraping, enabled, omitted, maxAttempts, attempt>>

\* Error the inner catch throws for the rejection value of the direct
\* invocation (number k): new Error(`... ${directError.message}`).
AllFailed(outcome, k) ==
    IF outcome = "nullish"
    THEN Rejected("TypeError", -1)
    ELSE Rejected("AllDownloadAttemptsFailed", k)

\* The direct invocation made after the last attempt settles.
SettleFallback(outcome) ==
    /\ pc = "fallback"
    /\ LET k == Invocations - 1
       IN  /\ events' = Append(events, Ev("settle", attempt, "", FALSE, TRUE, outcome, 0))
           /\ result' = IF outcome = "ok" THEN Resolved(k) ELSE AllFailed(outcome, k)
    /\ pc' = "done"
    /\ UNCHANGED <<aux, listed, env, scraping, enabled, omitted, maxAttempts, attempt,
                   proxyConfig, inflight, timer>>

\* The backoff timer fires: attempt++ and the loop test.
TimerFire ==
    /\ pc = "waiting"
    /\ timer' = 0
    /\ attempt' = attempt + 1
    /\ events' = Append(events, Ev("fire", attempt, "", FALSE, FALSE, "", timer))
    /\ LoopHead(attempt + 1, maxAttempts)
    /\ UNCHANGED <<aux, listed, env, scraping, enabled, omitted, maxAttempts,
                   proxyConfig, inflight>>

Next ==
    \/ \E arg \in -1..MaxAttemptsBound : Call(arg, FALSE)
    \/ Call(defaultMaxAttempts, TRUE)
    \/ Select
    \/ Invoke
    \/ \E outcome \in Outcomes : Settle(outcome)
    \/ \E outcome \in Outcomes : SettleFallback(outcome)
    \/ TimerFire

Spec == Init /\ [][Next]_vars

----------------------------------------------------------------------------
\* The environment changes while the process runs.

UsernameBlocks ==
    { {"PROXY_USERNAME"}, {"BRIGHTDATA_USERNAME"}, {"SMARTPROXY_USERNAME"},
      {"OXYLABS_USERNAME"} }

\* Some other code of the process sets or deletes the variables of one block
\* of process.env.  It runs only while no segment of downloadWithRetry does:
\* between calls, or while a call awaits its invocation or its timer.  The
\* table PROXY_PROVIDERS is not touched: its `enabled` fields were computed
\* when the module was loaded.
EnvChange(b) ==
    /\ pc \in {"idle", "done", "fetching", "fallback", "waiting"}
    /\ env' = IF b \subseteq env THEN env \ b ELSE env \cup b
    /\ scraping' \in
         IF ("PROXY_USERNAME" \in env') \/ ("BRIGHTDATA_USERNAME" \in env')
         THEN (IF b \in UsernameBlocks THEN BOOLEAN ELSE {scraping})
         ELSE {FALSE}
    /\ UNCHANGED <<aux, listed, enabled, omitted, maxAttempts, attempt, pc, proxyConfig,
                   inflight, timer, events, result>>

\* Calls with a short attempt budget.
ShortCall == \E arg \in 1..MaxShortAttempts : Call(arg, FALSE)

NextReload ==
    \/ ShortCall
    \/ Select
    \/ Invoke
    \/ \E outcome \in Outcomes : Settle(outcome)
    \/ \E outcome \in Outcomes : SettleFallback(outcome)
    \/ TimerFire
    \/ \E b \in EnvBlocks : EnvChange(b)

SpecReload == Init /\ [][NextReload]_vars

----------------------------------------------------------------------------
\* getActiveProviders as a function of the table: every choice of the enabled
\* flags and every assignment of the priorities that occur in the table to
\* the four entries, the table of the source among them.

PriorityValues == { PriorityTable[name] : name \in Providers }

InitTable ==
    /\ Listening
    /\ priorities \in [Providers -> PriorityValues]
    /\ types = TypeTable
    /\ other = NoCall
    /\ policy = NoPolicy
    /\ abandonedAt = -1
    /\ enabled \in [Providers -> BOOLEAN]
    /\ listed = <<>>
    /\ env = {}
    /\ scraping = FALSE
    /\ omitted = FALSE
    /\ maxAttempts = 0
    /\ attempt = 0
    /\ pc = "idle"
    /\ proxyConfig = NullConfig
    /\ inflight = NullUrl
    /\ timer = 0
    /\ events = <<>>
    /\ result = Pending

\* const providers = getActiveProviders()
ListProviders ==
    /\ pc = "idle"
    /\ listed = <<>>
    /\ listed' = getActiveProviders
    /\ UNCHANGED <<aux, env, scraping, enabled, omitted, maxAttempts, attempt, pc,
                   proxyConfig, inflight, timer, events, result>>

NextTable == ListProviders

SpecTable == InitTable /\ [][NextTable]_vars

----------------------------------------------------------------------------
\* Two calls of downloadWithRetry in one process.  Each call has its own
\* locals (maxAttempts, attempt, proxyConfig, ...); the event loop runs one
\* segment at a time and may run a segment of either call next.  The call
\* whose segment runs next has its locals in the variables of the model, the
\* suspended one in `other`.  A call is suspended at an await: the body up to
\* the first await (the loop test and getProxyWithFallback) runs with the
\* call itself, so no switch happens at "select".

\* The module is loaded as in Init; the provider credentials are given under
\* the provider's own variable names (the PROXY_* aliases of the BrightData
\* variables are left unset).
InitConcurrent ==
    /\ Init
    /\ env \cap {"PROXY_USERNAME", "PROXY_PASSWORD", "PROXY_HOST", "PROXY_PORT"} = {}

\* Switch with `attempt` as a binding shared by the two calls.
Switch_sharedAttempt ==
    /\ pc # "select"
    /\ other' = Current
    /\ omitted' = other.omitted
    /\ maxAttempts' = other.maxAttempts
    /\ attempt' = attempt
    /\ pc' = other.pc
    /\ proxyConfig' = other.proxyConfig
    /\ inflight' = other.inflight
    /\ timer' = other.timer
    /\ events' = other.events
    /\ result' = other.result
    /\ UNCHANGED <<priorities, types, caller, server, logging, listed, env, scraping, enabled>>

\* The event loop turns to the other call.
Switch ==
    /\ pc # "select"
    /\ other' = Current
    /\ omitted' = other.omitted
    /\ maxAttempts' = other.maxAttempts
    /\ attempt' = other.attempt
    /\ pc' = other.pc
    /\ proxyConfig' = other.proxyConfig
    /\ inflight' = other.inflight
    /\ timer' = other.timer
    /\ events' = other.events
    /\ result' = other.result
    /\ UNCHANGED <<priorities, types, caller, server, logging, listed, env, scraping, enabled>>

NextConcurrent ==
    \/ ShortCall
    \/ Select
    \/ Invoke
    \/ \E outcome \in Outcomes : Settle(outcome)
    \/ \E outcome \in Outcomes : SettleFallback(outcome)
    \/ TimerFire
    \/ Switch

SpecConcurrent == InitConcurrent /\ [][NextConcurrent]_vars

----------------------------------------------------------------------------
\* A caller that gives up a call in flight.  downloadWithRetry takes
\* (downloadFunc, maxAttempts) and returns a plain promise: it is handed no
\* signal, passes none to downloadFunc and drops the handle of its timer, so
\* giving the call up changes nothing in the call.

Abandon ==
    /\ pc \in {"fetching", "fallback", "waiting"}
    /\ abandonedAt = -1
    /\ abandonedAt' = Len(events)
    /\ UNCHANGED <<priorities, types, other, policy, server, logging, listed, env,
                   scraping, enabled, omitted, maxAttempts, attempt, pc, proxyConfig, inflight,
                   timer, events, result>>

NextCancel ==
    \/ abandonedAt = -1 /\ ShortCall
    \/ Select
    \/ Invoke
    \/ \E outcome \in Outcomes : Settle(outcome)
    \/ \E outcome \in Outcomes : SettleFallback(outcome)
    \/ TimerFire
    \/ Abandon

SpecCancel == Init /\ [][NextCancel]_vars

----------------------------------------------------------------------------
\* A caller that passes a delay policy.  downloadWithRetry declares two
\* parameters, (downloadFunc, maxAttempts = 3); what a caller passes after
\* them is bound to nothing and read by nothing.

BaseDelays == {500, 1000}

MaxDelays == {1500, 10000}

Policies == [baseDelayMs : BaseDelays, maxDelayMs : MaxDelays]

\* The caller has chosen the delays it passes with each call.
InitPolicy == Loaded /\ policy \in Policies

\* downloadWithRetry(downloadFunc, arg, policy.baseDelayMs, policy.maxDelayMs)
PolicyCall == \E arg \in 1..MaxPolicyAttempts : Call(arg, FALSE)

NextPolicy ==
    \/ PolicyCall
    \/ Select
    \/ Invoke
    \/ \E outcome \in Outcomes : Settle(outcome)
    \/ \E outcome \in Outcomes : SettleFallback(outcome)
    \/ TimerFire

SpecPolicy == InitPolicy /\ [][NextPolicy]_vars

----------------------------------------------------------------------------
\* The download endpoint of the server (src/server/index.js, lines 128-218):
\* one action per segment of the handler between awaits and callbacks.

\* The variables of the orchestrator, which the server does not touch.
orchestrator ==
    <<priorities, types, other, caller, logging, listed, env, scraping, enabled, omitted,
      maxAttempts, attempt, pc, proxyConfig, inflight, timer, events, result>>

\* let agent = null; if (PROXY_USERNAME && PROXY_HOST) agent = new HttpsProxyAgent(...)
agent == {"PROXY_USERNAME", "PROXY_HOST"} \subseteq env

\* The server is started with the BrightData variables of its own .env file.
InitDownload ==
    /\ Init
    /\ env \subseteq {"PROXY_USERNAME", "PROXY_PASSWORD", "PROXY_HOST", "PROXY_PORT"}
    /\ scraping = FALSE

\* POST /api/download arrives: 400 when url is missing, else ytdl.getInfo is
\* awaited.
DownloadRequest(r, hasUrl, outputFormat) ==
    /\ req[r].pc = "none"
    /\ req' = [req EXCEPT ![r] =
                 IF hasUrl
                 THEN [pc |-> "info", outputFormat |-> outputFormat,
                       filePath |-> <<>>, status |-> 0]
                 ELSE [pc |-> "finished", outputFormat |-> outputFormat,
                       filePath |-> <<>>, status |-> 400]]
    /\ UNCHANGED <<files, cleanups, infoReq, orchestrator>>

\* ytdl.getInfo rejects (or the title cannot be read): the catch clause
\* answers 500.
InfoRejected(r) ==
    /\ req[r].pc = "info"
    /\ req' = [req EXCEPT ![r].pc = "finished", ![r].status = 500]
    /\ UNCHANGED <<files, cleanups, infoReq, orchestrator>>

\* ytdl.getInfo resolves with a title: the file name is built and the output
\* file is opened for writing (ffmpeg .save or fs.createWriteStream), which
\* creates it or truncates the one that is there.
InfoResolved(r, title) ==
    /\ req[r].pc = "info"
    /\ LET filePath == FilePath(title, req[r].outputFormat)
       IN  /\ req' = [req EXCEPT ![r].pc = "writing", ![r].filePath = filePath]
           /\ files' = [files EXCEPT ![filePath] = "partial"]
    /\ UNCHANGED <<cleanups, infoReq, orchestrator>>

\* 'end': the promise resolves and res.download starts sending the file.
StreamEnd(r) ==
    /\ req[r].pc = "writing"
    /\ req' = [req EXCEPT ![r].pc = "sending"]
    /\ files' = [files EXCEPT ![req[r].filePath] =
                   IF @ = "absent" THEN "absent" ELSE "complete"]
    /\ UNCHANGED <<cleanups, infoReq, orchestrator>>

\* 'error' of the stream, of ffmpeg or of the write stream: the promise
\* rejects and the catch clause answers 500; nothing is done about the file.
StreamError(r) ==
    /\ req[r].pc = "writing"
    /\ req' = [req EXCEPT ![r].pc = "finished", ![r].status = 500]
    /\ UNCHANGED <<files, cleanups, infoReq, orchestrator>>

\* The callback of res.download runs, with or without err: the cleanup timer
\* is started in both cases.  The handler answers nothing itself on err; the
\* response is 200 if res.download had sent its headers before it failed and
\* none (0) otherwise.
SendCallback(r, err, headersSent) ==
    /\ req[r].pc = "sending"
    /\ err \/ headersSent
    /\ req' = [req EXCEPT ![r].pc = "finished",
                          ![r].status = IF headersSent THEN 200 ELSE 0]
    /\ cleanups' = cleanups \cup {[owner |-> r, filePath |-> req[r].filePath]}
    /\ UNCHANGED <<files, infoReq, orchestrator>>

\* The cleanup timer fires: if (fs.existsSync(filePath)) fs.unlinkSync(filePath)
CleanupTimer(t) ==
    /\ t \in cleanups
    /\ cleanups' = cleanups \ {t}
    /\ files' = [files EXCEPT ![t.filePath] = "absent"]
    /\ UNCHANGED <<req, infoReq, orchestrator>>

NextDownload ==
    \/ \E r \in Requests, hasUrl \in BOOLEAN, outputFormat \in OutputFormats :
          DownloadRequest(r, hasUrl, outputFormat)
    \/ \E r \in Requests : InfoRejected(r)
    \/ \E r \in Requests, title \in RawTitles : InfoResolved(r, title)
    \/ \E r \in Requests : StreamEnd(r)
    \/ \E r \in Requests : StreamError(r)
    \/ \E r \in Requests, err \in BOOLEAN, headersSent \in BOOLEAN :
          SendCallback(r, err, headersSent)
    \/ \E t \in cleanups : CleanupTimer(t)

SpecDownload == InitDownload /\ [][NextDownload]_vars

----------------------------------------------------------------------------
\* The video-info endpoint of the server (src/server/index.js, lines 53-125).

\* Values of req.body.url: absent (or another falsy value), a string without
\* a YouTube host, a string with 'youtube.com', a string with 'youtu.be', and
\* a truthy value that is not a string and has no includes method (a number,
\* true, an object).
UrlValues == {"missing", "plain", "youtube.com", "youtu.be", "nonstring"}

\* Keys of the success response.
InfoKeys == {"title", "duration", "thumbnail", "videoFormats", "audioFormats"}

Respond(r, code, keys) ==
    [infoReq EXCEPT ![r].pc = "finished",
                    ![r].responses = @ + 1,
                    ![r].status = code,
                    ![r].body = keys]

\* POST /api/video-info arrives: the two checks of url, then ytdl.getInfo is
\* awaited.  url.includes is not a function for a truthy value that is not
\* a string: the TypeError is caught by the catch clause, which answers 500.
VideoInfoRequest(r, url) ==
    /\ infoReq[r].pc = "none"
    /\ infoReq' =
          LET received == [infoReq EXCEPT ![r].url = url]
          IN  CASE url = "missing" ->
                     [received EXCEPT ![r].pc = "finished", ![r].responses = @ + 1,
                                      ![r].status = 400, ![r].body = {"error"}]
                [] url = "nonstring" ->
                     [received EXCEPT ![r].pc = "finished", ![r].responses = @ + 1,
                                      ![r].status = 500,
                                      ![r].body = {"error", "details", "suggestion"}]
                [] url = "plain" ->
                     [received EXCEPT ![r].pc = "finished", ![r].responses = @ + 1,
                                      ![r].status = 400, ![r].body = {"error"}]
                [] OTHER ->
                     [received EXCEPT ![r].pc = "info", ![r].fetched = TRUE]
    /\ UNCHANGED <<req, files, cleanups, orchestrator>>

\* ytdl.getInfo resolves: the formats are filtered and res.json sends the
\* five fields.
VideoInfoResolved(r) ==
    /\ infoReq[r].pc = "info"
    /\ infoReq' = Respond(r, 200, InfoKeys)
    /\ UNCHANGED <<req, files, cleanups, orchestrator>>

\* ytdl.getInfo rejects: the catch clause answers 500.
VideoInfoRejected(r) ==
    /\ infoReq[r].pc = "info"
    /\ infoReq' = Respond(r, 500, {"error", "details", "suggestion"})
    /\ UNCHANGED <<req, files, cleanups, orchestrator>>

NextInfo ==
    \/ \E r \in Requests, url \in UrlValues : VideoInfoRequest(r, url)
    \/ \E r \in Requests : VideoInfoResolved(r)
    \/ \E r \in Requests : VideoInfoRejected(r)

SpecInfo == InitDownload /\ [][NextInfo]_vars

----------------------------------------------------------------------------
\* What is logged while a proxy URL is built: brightdata.buildUrl
\* (src/unnamed/part_000, lines 21-36) and the proxy test server
\* (src/server/index.js, lines 238-249).  Strings are sequences of
\* characters, so that String.prototype.replace is computed as it works.

Scheme == <<"h", "t", "t", "p", ":", "/", "/">>

SessionInfix == <<"-", "s", "e", "s", "s", "i", "o", "n", "-">>

Stars == <<"*", "*", "*">>

\* `http://${username}:${password}@${host}:${port}`
ProxyUrlText(username, password, host, port) ==
    Scheme \o username \o <<":">> \o password \o <<"@">> \o host \o <<":">> \o port

\* s.indexOf(pat) + 1: position of the first occurrence of pat in s, 0 when
\* there is none.
IndexOf(s, pat) ==
    LET hits == { i \in 1..(Len(s) - Len(pat) + 1) :
                    SubSeq(s, i, i + Len(pat) - 1) = pat }
    IN  IF hits = {} THEN 0 ELSE CHOOSE i \in hits : \A k \in hits : i <= k

Contains(s, pat) == IndexOf(s, pat) # 0

\* s.replace(pat, rep) with a string pattern: only the first occurrence of
\* pat is replaced.
ReplaceFirst(s, pat, rep) ==
    LET i == IndexOf(s, pat)
    IN  IF i = 0 THEN s
        ELSE SubSeq(s, 1, i - 1) \o rep \o SubSeq(s, i + Len(pat), Len(s))

\* Values of the proxy variables: user names, passwords (one that occurs in
\* no other part of the URL, one that occurs in a user name, one that occurs
\* in the scheme, one that is also a host) and hosts.
LogUsernames == { <<"u">>, <<"u", "x">>, <<"s", "c">> }

LogPasswords == { <<"z">>, <<"x">>, <<"p">>, <<"b", "1">> }

LogHosts == { <<"b", "1">>, <<"g">> }

LogPort == <<"8">>

\* Session tokens as characters; the empty token among them.
LogTokens == { <<>>, <<"k">> }

\* The four BrightData variables are set under the PROXY_* names, with any of
\* the values above.
InitLog ==
    /\ credentials \in [username : LogUsernames, password : LogPasswords,
                          host : LogHosts, port : {LogPort}]
    /\ logged = {}
    /\ req = [r \in Requests |-> NoRequest]
    /\ infoReq = [r \in Requests |-> NoInfoRequest]
    /\ files = [f \in FilePaths |-> "absent"]
    /\ cleanups = {}
    /\ priorities = PriorityTable
    /\ types = TypeTable
    /\ other = NoCall
    /\ policy = NoPolicy
    /\ abandonedAt = -1
    /\ listed = <<>>
    /\ env = {"PROXY_USERNAME", "PROXY_PASSWORD", "PROXY_HOST", "PROXY_PORT"}
    /\ scraping \in BOOLEAN
    /\ enabled = [name \in Providers |-> enabledAtLoad(env, name)]
    /\ omitted = FALSE
    /\ maxAttempts = 0
    /\ attempt = 0
    /\ pc = "idle"
    /\ proxyConfig = NullConfig
    /\ inflight = NullUrl
    /\ timer = 0
    /\ events = <<>>
    /\ result = Pending

\* The variables the logging steps leave alone.
unlogged ==
    <<priorities, types, other, caller, server, credentials, listed, env, scraping,
      enabled, omitted, maxAttempts, attempt, pc, proxyConfig, inflight, timer,
      events, result>>

\* brightdata.buildUrl(sessionId): logs the configuration without the
\* password, then the URL after proxyUrl.replace(password, '***').
BuildUrlLog(sessionId) ==
    LET c == credentials
        username == IF scraping \/ sessionId = <<>>
                    THEN c.username
                    ELSE c.username \o SessionInfix \o sessionId
        proxyUrl == ProxyUrlText(username, c.password, c.host, c.port)
    IN  /\ logged' = logged \cup
                        { c.username \o <<",">> \o c.host \o <<",">> \o c.port,
                          ReplaceFirst(proxyUrl, c.password, Stars) }
        /\ logged' # logged
        /\ UNCHANGED unlogged

\* The proxy test server is loaded: it logs
\* PROXY_URL.replace(process.env.PROXY_PASSWORD, '***').
TestProxyLog ==
    LET c == credentials
        PROXY_URL == ProxyUrlText(c.username, c.password, c.host, c.port)
    IN  /\ logged' = logged \cup { ReplaceFirst(PROXY_URL, c.password, Stars) }
        /\ logged' # logged
        /\ UNCHANGED unlogged

\* POST /test-proxy: logs the host, the port and the user name.
TestProxyRequest ==
    /\ logged' = logged \cup { credentials.host, credentials.port, credentials.username }
    /\ logged' # logged
    /\ UNCHANGED unlogged

NextLog ==
    \/ \E sessionId \in LogTokens : BuildUrlLog(sessionId)
    \/ TestProxyLog
    \/ TestProxyRequest

SpecLog == InitLog /\ [][NextLog]_vars

----------------------------------------------------------------------------
\* The second copy of the orchestrator in the source, run beside the first
\* one on the same environment, the same maxAttempts and the same outcome of
\* each downloadFunc invocation.  The first copy's call has its state in the
\* variables of the model, the second copy's call in `other`, together with
\* the `enabled` fields of the second copy's own table.  The two copies share
\* no state, so the second is stepped after the first: a segment of the
\* first copy runs when the second has caught up.

\* The `enabled:` initialisers of the second table.
enabledAtLoad2(e, name) ==
    CASE name = "brightdata" -> "BRIGHTDATA_USERNAME" \in e
      [] name = "smartproxy" -> "SMARTPROXY_USERNAME" \in e
      [] name = "oxylabs"    -> "OXYLABS_USERNAME" \in e
      [] name = "freeProxy"  -> TRUE

\* The buildUrl functions of the second table: template strings over
\* process.env, with no test of the values.
buildUrl2(name, sessionId) ==
    CASE name = "brightdata" ->
            <<EnvVal(env, "BRIGHTDATA_USERNAME"), SessionSuffix(sessionId),
              EnvVal(env, "BRIGHTDATA_PASSWORD"), EnvVal(env, "BRIGHTDATA_HOST"),
              EnvVal(env, "BRIGHTDATA_PORT")>>
      [] name = "smartproxy" ->
            <<EnvVal(env, "SMARTPROXY_USERNAME"), SessionSuffix(sessionId),
              EnvVal(env, "SMARTPROXY_PASSWORD"), "gate.smartproxy.com", "7000">>
      [] name = "oxylabs" ->
            <<EnvVal(env, "OXYLABS_USERNAME"), "",
              EnvVal(env, "OXYLABS_PASSWORD"), "pr.oxylabs.io", "7777">>
      [] name = "freeProxy" -> NullUrl

IsEnabled2(name) == other.enabled[name]

\* The second table has the priorities of the first (1, 2, 3, 99).
getActiveProviders2 == SortByPriority(SelectSeq(ProviderNames, IsEnabled2))

selectedProvider2(a) ==
    LET providers == getActiveProviders2
    IN  IF Len(providers) = 0 THEN "none"
        ELSE providers[providerIndex(a, Len(providers)) + 1]

\* getProxyWithFallback of the second copy: whatever buildUrl returns is
\* handed on.
getProxyWithFallback2(a, sessionId) ==
    LET providerName == selectedProvider2(a)
    IN  IF providerName = "none" THEN NullConfig
        ELSE IF providerName = "freeProxy" THEN getFreeProxy
        ELSE [url |-> buildUrl2(providerName, sessionId), provider |-> providerName,
              sessionId |-> sessionId, attempt |-> a]

\* The second module has been loaded and its downloadWithRetry not called.
Loaded2(e) ==
    [enabled |-> [name \in Providers |-> enabledAtLoad2(e, name)],
     omitted |-> FALSE, maxAttempts |-> 0, attempt |-> 0, pc |-> "idle",
     proxyConfig |-> NullConfig, inflight |-> NullUrl, timer |-> 0,
     events |-> <<>>, result |-> Pending]

InitCopies ==
    /\ Listening
    /\ priorities = PriorityTable
    /\ types = TypeTable
    /\ policy = NoPolicy
    /\ abandonedAt = -1
    /\ listed = <<>>
    /\ env \in Environments
    /\ scraping \in
         IF ("PROXY_USERNAME" \in env) \/ ("BRIGHTDATA_USERNAME" \in env)
         THEN BOOLEAN ELSE {FALSE}
    /\ enabled = [name \in Providers |-> enabledAtLoad(env, name)]
    /\ other = Loaded2(env)
    /\ omitted = FALSE
    /\ maxAttempts = 0
    /\ attempt = 0
    /\ pc = "idle"
    /\ proxyConfig = NullConfig
    /\ inflight = NullUrl
    /\ timer = 0
    /\ events = <<>>
    /\ result = Pending

\* Everything but the state of the second copy.
firstCopy ==
    <<priorities, types, caller, server, logging, listed, env, scraping, enabled,
      omitted, maxAttempts, attempt, pc, proxyConfig, inflight, timer, events,
      result>>

\* The second copy has run as far as the first.
CaughtUp == other.pc = pc /\ Len(other.events) = Len(events)

\* The first copy is ahead by a segment.
Behind == Len(other.events) < Len(events)

\* The for-loop test of the second copy.
LoopHead2(o, a, m) ==
    IF a < m
    THEN [o EXCEPT !.pc = "select", !.result = Pending]
    ELSE [o EXCEPT !.pc = "done", !.result = Resolved(-1)]

\* downloadWithRetry of the second copy is called with the arguments the
\* first copy was called with.
Call2 ==
    /\ other.pc = "idle"
    /\ pc # "idle"
    /\ other' = LoopHead2([other EXCEPT !.omitted = omitted,
                                        !.maxAttempts = maxAttempts,
                                        !.attempt = 0],
                          0, maxAttempts)
    /\ UNCHANGED firstCopy

\* const proxyConfig = await getProxyWithFallback(attempt)
Select2 ==
    /\ other.pc = "select"
    /\ Behind
    /\ \E sessionId \in Tokens :
         other' = [other EXCEPT
                     !.proxyConfig = getProxyWithFallback2(other.attempt, sessionId),
                     !.events = Append(other.events,
                                  Ev("select", other.attempt,
                                     selectedProvider2(other.attempt),
                                     FALSE, FALSE, "", 0)),
                     !.pc = "invoke"]
    /\ UNCHANGED firstCopy

\* downloadFunc(null) when there is no proxyConfig, else
\* downloadFunc(proxyConfig.url)
Invoke2 ==
    /\ other.pc = "invoke"
    /\ Behind
    /\ other' = [other EXCEPT
                   !.inflight = other.proxyConfig.url,
                   !.events = Append(other.events,
                                Ev("fetch", other.attempt, other.proxyConfig.provider,
                                   other.proxyConfig # NullConfig, FALSE, "", 0)),
                   !.pc = "fetching"]
    /\ UNCHANGED firstCopy

\* The catch clause of the second copy's loop body.
Catch2(o, outcome, settled) ==
    IF outcome = "nullish"
    THEN [o EXCEPT !.result = Rejected("TypeError", -1), !.pc = "done",
                   !.events = settled, !.timer = 0]
    ELSE IF o.attempt = o.maxAttempts - 1
    THEN [o EXCEPT !.events = Append(settled, Ev("fetch", o.attempt, "", FALSE, TRUE, "", 0)),
                   !.pc = "fallback", !.timer = 0, !.result = Pending]
    ELSE [o EXCEPT !.events = Append(settled,
                                Ev("wait", o.attempt, "", FALSE, FALSE, "",
                                   waitTime(o.attempt))),
                   !.timer = waitTime(o.attempt), !.pc = "waiting",
                   !.result = Pending]

\* The attempt's invocation settles as the invocation of the same number did
\* in the first copy.
Settle2 ==
    /\ other.pc = "fetching"
    /\ Behind
    /\ LET outcome == events[Len(other.events) + 1].outcome
           k == Len(SelectSeq(other.events, IsFetch)) - 1
           settled == Append(other.events,
                        Ev("settle", other.attempt, other.proxyConfig.provider,
                           other.proxyConfig # NullConfig, FALSE, outcome, 0))
           o == [other EXCEPT !.inflight = NullUrl, !.proxyConfig = NullConfig]
       IN  /\ events[Len(other.events) + 1].kind = "settle"
           /\ other' = IF outcome = "ok"
                       THEN [o EXCEPT !.result = Resolved(k), !.pc = "done",
                                      !.events = settled, !.timer = 0]
                       ELSE Catch2(o, outcome, settled)
    /\ UNCHANGED firstCopy

\* The direct invocation of the second copy settles as the one of the same
\* number did in the first copy.
SettleFallback2 ==
    /\ other.pc = "fallback"
    /\ Behind
    /\ LET outcome == events[Len(other.events) + 1].outcome
           k == Len(SelectSeq(other.events, IsFetch)) - 1
       IN  /\ events[Len(other.events) + 1].kind = "settle"
           /\ other' = [other EXCEPT
                          !.events = Append(other.events,
                                       Ev("settle", other.attempt, "", FALSE, TRUE,
                                          outcome, 0)),
                          !.result = IF outcome = "ok" THEN Resolved(k)
                                     ELSE AllFailed(outcome, k),
                          !.pc = "done"]
    /\ UNCHANGED firstCopy

\* The backoff timer of the second copy fires.
TimerFire2 ==
    /\ other.pc = "waiting"
    /\ Behind
    /\ other' = LoopHead2([other EXCEPT
                             !.timer = 0,
                             !.attempt = other.attempt + 1,
                             !.events = Append(other.events,
                                          Ev("fire", other.attempt, "", FALSE, FALSE,
                                             "", other.timer))],
                          other.attempt + 1, other.maxAttempts)
    /\ UNCHANGED firstCopy

\* The one call made to the first copy of a pair.
CallOnce(arg, isOmitted) ==
    /\ pc = "idle"
    /\ other' = other
    /\ Call(arg, isOmitted)

NextCopies ==
    \/ \E arg \in -1..MaxCopyAttempts : CallOnce(arg, FALSE)
    \/ CallOnce(defaultMaxAttempts, TRUE)
    \/ CaughtUp /\ Select
    \/ CaughtUp /\ Invoke
    \/ CaughtUp /\ \E outcome \in Outcomes : Settle(outcome)
    \/ CaughtUp /\ \E outcome \in Outcomes : SettleFallback(outcome)
    \/ CaughtUp /\ TimerFire
    \/ Call2
    \/ Select2
    \/ Invoke2
    \/ Settle2
    \/ SettleFallback2
    \/ TimerFire2

SpecCopies == InitCopies /\ [][NextCopies]_vars

----------------------------------------------------------------------------
\* Views of the history used by the properties.

IsSelect(e) == e.kind = "select"

IsWait(e) == e.kind = "wait"

IsSettle(e) == e.kind = "settle"

IsAttemptFetch(e) == e.kind = "fetch" /\ ~e.fallback

IsFallbackFetch(e) == e.kind = "fetch" /\ e.fallback

Selects == SelectSeq(events, IsSelect)

Waits == SelectSeq(events, IsWait)

Fetches == SelectSeq(events, IsFetch)

AttemptFetches == SelectSeq(events, IsAttemptFetch)

FallbackFetches == SelectSeq(events, IsFallbackFetch)

\* Some invocation of the current call resolved.
SomeSuccess == \E k \in 1..Len(events) : IsSettle(events[k]) /\ events[k].outcome = "ok"

\* Some invocation of the current call rejected with null or undefined.
SomeNullish ==
    \E k \in 1..Len(events) : IsSettle(events[k]) /\ events[k].outcome = "nullish"

\* The invocation of attempt i rejected.
AttemptFailed(i) ==
    \E k \in 1..Len(events) :
        /\ IsSettle(events[k]) /\ ~events[k].fallback
        /\ events[k].attempt = i /\ events[k].outcome # "ok"

\* The direct invocation after the last attempt rejected.
FallbackFailed ==
    \E k \in 1..Len(events) :
        IsSettle(events[k]) /\ events[k].fallback /\ events[k].outcome # "ok"

\* The configuration holds everything the provider's route is made of.
RouteAvailable(p) ==
    CASE p = "brightdata" ->
            /\ ("PROXY_USERNAME" \in env) \/ ("BRIGHTDATA_USERNAME" \in env)
            /\ ("PROXY_PASSWORD" \in env) \/ ("BRIGHTDATA_PASSWORD" \in env)
            /\ ("PROXY_HOST" \in env) \/ ("BRIGHTDATA_HOST" \in env)
            /\ ("PROXY_PORT" \in env) \/ ("BRIGHTDATA_PORT" \in env)
      [] p \in {"smartproxy", "oxylabs"} -> TRUE
      [] OTHER -> FALSE

EnabledSet == { n \in Providers : enabled[n] }

ProviderSeq(s) == [k \in 1..Len(s) |-> s[k].provider]

----------------------------------------------------------------------------
\* C1: in every call the provider selected at attempt index i is
\* providers[i mod N], where providers is the list of enabled providers in
\* ascending priority and N >= 1 its length; attempts are selected in the
\* order 0, 1, 2, ... and never beyond maxAttempts - 1.
C1_RoundRobin ==
    LET providers == getActiveProviders
        N == Len(providers)
    IN  /\ N >= 1
        /\ { providers[k] : k \in 1..N } = EnabledSet
        /\ \A i, j \in 1..N : i < j => priority(providers[i]) < priority(providers[j])
        /\ \A k \in 1..Len(Selects) :
              /\ Selects[k].attempt = k - 1
              /\ k - 1 < maxAttempts
              /\ Selects[k].provider = providers[((k - 1) % N) + 1]
        /\ pc \in {"invoke", "fetching", "waiting", "fallback"}
              => Len(Selects) = attempt + 1

\* C1 witness: two enabled providers, maxAttempts = 5, every attempt failed:
\* the selection sequence is p1, p2, p1, p2, p1.
C1_Witness ==
    /\ pc = "done"
    /\ maxAttempts = 5
    /\ getActiveProviders = <<"brightdata", "freeProxy">>
    /\ result.kind = "rejected"
    /\ ProviderSeq(Selects) =
          <<"brightdata", "freeProxy", "brightdata", "freeProxy", "brightdata">>

\* C2 (as claimed): whenever the invocation of attempt maxAttempts - 1 has
\* rejected, the very next thing the call did is one direct invocation (no
\* route, no wait in between), and it is the only one; and a direct fallback
\* is made only after that attempt rejected.
C2_FallbackAfterLastFailure ==
    /\ \A k \in 1..Len(events) :
          ( /\ IsSettle(events[k]) /\ ~events[k].fallback
            /\ events[k].outcome # "ok"
            /\ events[k].attempt = maxAttempts - 1 )
          => /\ k < Len(events)
             /\ IsFallbackFetch(events[k + 1])
             /\ ~events[k + 1].routed
             /\ Len(FallbackFetches) = 1
    /\ Len(FallbackFetches) > 0
          => \A i \in 0..(maxAttempts - 1) : AttemptFailed(i)

\* C3 (as claimed): a call makes at most maxAttempts + 1 invocations, and
\* invocation number maxAttempts (counting from 0) is made if and only if
\* the invocation of attempt maxAttempts - 1 rejected.
C3_InvocationCount ==
    maxAttempts >= 1 =>
        /\ Invocations <= maxAttempts + 1
        /\ (Invocations >= maxAttempts + 1) <=> AttemptFailed(maxAttempts - 1)

\* C4: once an invocation has resolved, nothing more happens in the call: the
\* settle is the last event, the call is done with that invocation's value,
\* no invocation is outstanding and no timer is pending; a call whose first
\* invocation resolves has made one invocation and no wait.
C4_ReturnOnSuccess ==
    \A k \in 1..Len(events) :
        (IsSettle(events[k]) /\ events[k].outcome = "ok")
        => /\ k = Len(events)
           /\ pc = "done"
           /\ result = Resolved(Invocations - 1)
           /\ inflight = NullUrl
           /\ timer = 0
           /\ (events[k].attempt = 0 /\ ~events[k].fallback)
                 => Invocations = 1 /\ Len(Waits) = 0

\* C4 witness: brightdata, smartproxy and oxylabs all give a route,
\* maxAttempts = 3, the first two invocations rejected and the third, through
\* oxylabs, resolved: three invocations, no direct fallback.
C4_Witness ==
    /\ pc = "done"
    /\ maxAttempts = 3
    /\ result = Resolved(2)
    /\ Invocations = 3
    /\ Len(FallbackFetches) = 0
    /\ ProviderSeq(AttemptFetches) = <<"brightdata", "smartproxy", "oxylabs">>
    /\ \A k \in 1..3 : AttemptFetches[k].routed

\* Delay of the default policy after failed attempt i.
DefaultDelay(i) ==
    CASE i = 0 -> 1000
      [] i = 1 -> 2000
      [] i = 2 -> 4000
      [] i = 3 -> 8000
      [] OTHER -> 10000

\* C5: a call that leaves maxAttempts out runs with maxAttempts = 3, and
\* every backoff wait follows a rejected attempt i < maxAttempts - 1 and
\* lasts 1000, 2000, 4000, 8000 ms for i = 0..3 and 10000 ms for i >= 4.
C5_BackoffDelays ==
    /\ omitted => maxAttempts = 3
    /\ \A k \in 1..Len(events) :
          IsWait(events[k])
          => /\ events[k].ms = DefaultDelay(events[k].attempt)
             /\ events[k].attempt < maxAttempts - 1
             /\ AttemptFailed(events[k].attempt)
    /\ pc = "waiting" => timer = DefaultDelay(attempt)
    /\ pc # "waiting" => timer = 0

\* C5 witness: the wait after attempt 4 of a call with maxAttempts = 6 is
\* pending with 10000 ms, after waits of 1000, 2000, 4000 and 8000 ms.
C5_Witness ==
    /\ pc = "waiting"
    /\ attempt = 4
    /\ timer = 10000
    /\ [k \in 1..Len(Waits) |-> Waits[k].ms] = <<1000, 2000, 4000, 8000, 10000>>

\* C5 witness of the default: a call without maxAttempts waited 1000 and
\* 2000 ms and then made the direct fallback.
C5_WitnessDefault ==
    /\ omitted
    /\ pc = "fallback"
    /\ [k \in 1..Len(Waits) |-> Waits[k].ms] = <<1000, 2000>>

\* C6 (as claimed): a call whose direct fallback rejected ends rejected with
\* the aggregated error, which carries the error of the direct invocation.
C6_AggregatedCause ==
    (pc = "done" /\ FallbackFailed)
    => result = Rejected("AllDownloadAttemptsFailed", Invocations - 1)

\* C7 (as claimed): a call is only ever rejected with the aggregated error,
\* and only after maxAttempts attempts and the direct fallback were made and
\* the fallback rejected.
C7_OnlyAggregatedEscapes ==
    result.kind = "rejected"
    => /\ result.error = "AllDownloadAttemptsFailed"
       /\ FallbackFailed
       /\ Invocations = maxAttempts + 1

\* C8 (as claimed): every attempt's invocation goes through a provider route
\* and only the final fallback is made without one; a call in which every
\* invocation rejected made maxAttempts + 1 invocations, one of them direct,
\* and ended with the aggregated error.
C8_AllAttemptsRouted ==
    /\ \A k \in 1..Len(events) :
          IsFetch(events[k]) => (events[k].routed <=> ~events[k].fallback)
    /\ (pc = "done" /\ maxAttempts >= 1 /\ ~SomeSuccess)
          => /\ Invocations = maxAttempts + 1
             /\ Len(FallbackFetches) = 1
             /\ result.error = "AllDownloadAttemptsFailed"

\* C8 (amended): every attempt makes one invocation, through the selected
\* provider's route when the configuration yields one and without a route
\* otherwise (freeProxy never yields one, brightdata only when fully
\* configured); the direct fallback is made at most once, without a route.
\* A call in which every invocation rejected ends rejected after at most
\* maxAttempts + 1 invocations: with the aggregated error after exactly
\* maxAttempts + 1 invocations, or with a TypeError right after an invocation
\* that rejected with null or undefined.
C8_AttemptsRoutedWhenAvailable ==
    /\ \A k \in 1..Len(AttemptFetches) :
          /\ AttemptFetches[k].attempt = k - 1
          /\ AttemptFetches[k].routed <=> RouteAvailable(Selects[k].provider)
          /\ AttemptFetches[k].routed => AttemptFetches[k].provider = Selects[k].provider
    /\ Len(AttemptFetches) <= Len(Selects)
    /\ Len(Selects) <= Len(AttemptFetches) + 1
    /\ Len(FallbackFetches) <= 1
    /\ \A k \in 1..Len(FallbackFetches) : ~FallbackFetches[k].routed
    /\ (pc = "done" /\ maxAttempts >= 1 /\ ~SomeSuccess)
          => /\ result.kind = "rejected"
             /\ Invocations <= maxAttempts + 1
             /\ IF SomeNullish
                THEN result.error = "TypeError"
                ELSE /\ result.error = "AllDownloadAttemptsFailed"
                     /\ Invocations = maxAttempts + 1
                     /\ Len(FallbackFetches) = 1

\* C8 witness: freeProxy is the only enabled provider, maxAttempts = 3 and
\* every invocation rejected: four invocations, none through a route, and the
\* aggregated error.
C8_Witness ==
    /\ pc = "done"
    /\ EnabledSet = {"freeProxy"}
    /\ maxAttempts = 3
    /\ ~SomeSuccess
    /\ Invocations = 4
    /\ \A k \in 1..4 : ~Fetches[k].routed
    /\ result.error = "AllDownloadAttemptsFailed"

\* C9 (as claimed): when the provider selected for an attempt yields no
\* route, no invocation is made in that attempt.
C9_NoFetchWithoutRoute ==
    \A k \in 1..Len(events) :
        (IsSelect(events[k]) /\ ~RouteAvailable(events[k].provider))
        => ~(k < Len(events) /\ IsAttemptFetch(events[k + 1]))

\* C9 (amended): when the provider selected for an attempt yields no route,
\* the attempt makes its invocation without a route (a direct connection) and
\* is then handled like any other attempt: if the invocation resolves the
\* call returns its value; if it rejects, the attempt has used its retry slot
\* and is followed by the backoff wait and the next attempt, or by the direct
\* fallback when it was the last (or, for a null/undefined rejection, by the
\* TypeError that ends the call).
C9_DirectAttemptWithoutRoute ==
    \A k \in 1..Len(events) :
        (IsSelect(events[k]) /\ ~RouteAvailable(events[k].provider))
        => /\ (k = Len(events)) => (pc = "invoke" /\ proxyConfig = NullConfig)
           /\ (k < Len(events))
                 => /\ IsAttemptFetch(events[k + 1])
                    /\ ~events[k + 1].routed
                    /\ events[k + 1].attempt = events[k].attempt
           /\ (k + 1 = Len(events)) => (pc = "fetching" /\ inflight = NullUrl)
           /\ (k + 2 <= Len(events))
                 => /\ IsSettle(events[k + 2])
                    /\ ~events[k + 2].fallback
                    /\ events[k + 2].attempt = events[k].attempt
                    /\ CASE events[k + 2].outcome = "ok" ->
                              /\ k + 2 = Len(events)
                              /\ pc = "done"
                              /\ result.kind = "resolved"
                         [] events[k + 2].outcome = "nullish" ->
                              /\ k + 2 = Len(events)
                              /\ pc = "done"
                              /\ result = Rejected("TypeError", -1)
                         [] OTHER ->
                              /\ k + 3 <= Len(events)
                              /\ IF events[k].attempt = maxAttempts - 1
                                 THEN IsFallbackFetch(events[k + 3])
                                 ELSE /\ IsWait(events[k + 3])
                                      /\ events[k + 3].attempt = events[k].attempt
                                      /\ (k + 5 <= Len(events))
                                            => /\ IsSelect(events[k + 5])
                                               /\ events[k + 5].attempt =
                                                     events[k].attempt + 1

\* C9 witness: brightdata is enabled but not fully configured; attempt 0
\* selected it, was made directly and rejected, the call waited, and attempt 1
\* (freeProxy, again without a route) resolved the call.
C9_Witness ==
    /\ pc = "done"
    /\ result = Resolved(1)
    /\ ~RouteAvailable("brightdata")
    /\ ProviderSeq(Selects) = <<"brightdata", "freeProxy">>
    /\ Len(Waits) = 1
    /\ \A k \in 1..2 : ~AttemptFetches[k].routed

\* The provider's user name variable is set in the current environment.
UsernameSet(n) ==
    CASE n = "brightdata" ->
            ("PROXY_USERNAME" \in env) \/ ("BRIGHTDATA_USERNAME" \in env)
      [] n = "smartproxy" -> "SMARTPROXY_USERNAME" \in env
      [] n = "oxylabs" -> "OXYLABS_USERNAME" \in env
      [] OTHER -> TRUE

ActiveSet == { getActiveProviders[k] : k \in 1..Len(getActiveProviders) }

\* C11 (as claimed): the list getActiveProviders returns follows the
\* configuration of the moment: a provider is in it exactly when its
\* credentials are present in the environment now, also after they were
\* added or removed since the module was loaded.
C11_ReflectsCurrentConfig == ActiveSet = { n \in Providers : UsernameSet(n) }

\* C11 (amended): the list getActiveProviders returns is fixed when the
\* module is loaded: it holds exactly the providers whose enabled flag was
\* computed true at load, and no later change of the configuration, between
\* two calls or between two attempts of one call, changes a flag, so none
\* adds a provider to the list or removes one.
C11_FixedAtLoad ==
    /\ [](ActiveSet = { n \in Providers : enabled[n] })
    /\ [][enabled' = enabled]_vars

\* C11 witness: the smartproxy credentials were added after the module was
\* loaded and before attempt 1 of a call was selected, and neither attempt
\* had smartproxy in its list.
C11_Witness ==
    /\ pc = "invoke"
    /\ attempt = 1
    /\ {"SMARTPROXY_USERNAME", "SMARTPROXY_PASSWORD"} \subseteq env
    /\ "smartproxy" \notin ActiveSet
    /\ ProviderSeq(Selects) = <<"freeProxy", "freeProxy">>

\* Every parameter the provider's buildUrl reads from the environment is set.
FullyConfigured(n) ==
    CASE n = "brightdata" -> RouteAvailable("brightdata")
      [] n = "smartproxy" ->
            {"SMARTPROXY_USERNAME", "SMARTPROXY_PASSWORD"} \subseteq env
      [] n = "oxylabs" ->
            {"OXYLABS_USERNAME", "OXYLABS_PASSWORD"} \subseteq env
      [] OTHER -> TRUE

\* C12 (as claimed): a provider is in the list getActiveProviders returns if
\* and only if every parameter its buildUrl needs is present, and a provider
\* with a parameter missing is never selected for an attempt: no route is
\* handed to downloadFunc with "undefined" in the place of a credential.
C12_EnabledIffConfigured ==
    /\ ActiveSet = { n \in Providers : FullyConfigured(n) }
    /\ \A k \in 1..Len(Selects) : FullyConfigured(Selects[k].provider)
    /\ \A k \in 1..Len(inflight) : inflight[k] # "undefined"

\* Position of an entry in the registration order of the table.
RegIndex(n) == CHOOSE k \in 1..Len(ProviderNames) : ProviderNames[k] = n

\* C13: for every choice of enabled flags and priorities, the list
\* getActiveProviders returns holds exactly the enabled providers, each once,
\* in ascending priority, and two providers of equal priority stand in their
\* registration order.
C13_SortedStableExact ==
    LET r == getActiveProviders
    IN  /\ listed \in {<<>>, r}
        /\ { r[k] : k \in 1..Len(r) } = EnabledSet
        /\ Len(r) = Cardinality(EnabledSet)
        /\ \A i, j \in 1..Len(r) :
              i < j => /\ priority(r[i]) <= priority(r[j])
                       /\ (priority(r[i]) = priority(r[j]))
                             => RegIndex(r[i]) < RegIndex(r[j])

\* C13 witness: oxylabs has the lowest priority value, brightdata and
\* smartproxy share a higher one, freeProxy is disabled: the list returned
\* is oxylabs, then brightdata and smartproxy in registration order.
C13_Witness ==
    /\ priority("brightdata") = priority("smartproxy")
    /\ priority("oxylabs") < priority("brightdata")
    /\ ~enabled["freeProxy"]
    /\ listed = <<"oxylabs", "brightdata", "smartproxy">>

\* C14 (as claimed): a call with maxAttempts >= 1 that has terminated either
\* returned the result of an invocation that succeeded or was rejected with
\* the aggregated error of the exhausted attempts.
C14_SuccessOrExhausted ==
    (pc = "done" /\ maxAttempts >= 1)
    => \/ /\ result.kind = "resolved"
          /\ SomeSuccess
          /\ result.value = Invocations - 1
       \/ /\ result.kind = "rejected"
          /\ result.error = "AllDownloadAttemptsFailed"
          /\ ~SomeSuccess

IsFire(e) == e.kind = "fire"

\* Invocations of downloadFunc that were made and have not settled.
Outstanding == Len(Fetches) - Len(SelectSeq(events, IsSettle))

\* Timers that were started and have not fired.
PendingWaits == Len(Waits) - Len(SelectSeq(events, IsFire))

\* C15: within one call at most one invocation of downloadFunc is
\* outstanding, none is outstanding while a backoff timer is pending, and an
\* attempt after the first is selected only directly after the timer of the
\* previous attempt fired, which was started directly after that attempt's
\* invocation had settled.
C15_Sequential ==
    /\ Outstanding \in {0, 1}
    /\ PendingWaits \in {0, 1}
    /\ Outstanding + PendingWaits <= 1
    /\ (Outstanding = 1) <=> (pc \in {"fetching", "fallback"})
    /\ (PendingWaits = 1) <=> (timer > 0)
    /\ (timer > 0) => (pc = "waiting")
    /\ \A k \in 1..Len(events) :
          /\ IsAttemptFetch(events[k])
                => /\ k > 1
                   /\ IsSelect(events[k - 1])
                   /\ events[k - 1].attempt = events[k].attempt
          /\ (IsSelect(events[k]) /\ k > 1)
                => /\ k > 3
                   /\ IsFire(events[k - 1])
                   /\ IsWait(events[k - 2])
                   /\ IsSettle(events[k - 3])
                   /\ events[k - 1].attempt = events[k].attempt - 1
                   /\ events[k - 2].attempt = events[k].attempt - 1
                   /\ events[k - 3].attempt = events[k].attempt - 1

\* C15 witness: attempt 0 failed, its backoff timer fired, and the invocation
\* of attempt 1 is the only one outstanding.
C15_Witness ==
    /\ pc = "fetching"
    /\ attempt = 1
    /\ Len(Waits) = 1
    /\ Outstanding = 1
    /\ timer = 0

\* The locals c of a call are those of a call running alone with the same
\* maxAttempts and the same outcomes of its own invocations: the history is
\* the one the loop produces step by step, and attempt, pc and result are
\* what that history leaves.
RunsAlone(c) ==
    LET ev == c.events
        n == Len(ev)
        m == c.maxAttempts
        N == Len(getActiveProviders)
        fetched == Len(SelectSeq(ev, IsFetch))
    IN  /\ c.attempt = Len(SelectSeq(ev, IsFire))
        /\ (n > 0) => (IsSelect(ev[1]) /\ ev[1].attempt = 0 /\ m >= 1)
        /\ \A k \in 1..n :
              /\ IsSelect(ev[k])
                    => /\ ev[k].attempt < m
                       /\ ev[k].provider =
                             getActiveProviders[(ev[k].attempt % N) + 1]
                       /\ (k < n) => /\ IsAttemptFetch(ev[k + 1])
                                     /\ ev[k + 1].attempt = ev[k].attempt
              /\ IsFetch(ev[k])
                    => (k = n) \/ /\ IsSettle(ev[k + 1])
                                  /\ ev[k + 1].fallback = ev[k].fallback
                                  /\ ev[k + 1].attempt = ev[k].attempt
              /\ (IsSettle(ev[k]) /\ k < n)
                    => /\ ev[k].outcome = "error"
                       /\ ~ev[k].fallback
                       /\ ev[k + 1].attempt = ev[k].attempt
                       /\ IF ev[k].attempt = m - 1
                          THEN IsFallbackFetch(ev[k + 1])
                          ELSE /\ IsWait(ev[k + 1])
                               /\ ev[k + 1].ms = waitTime(ev[k].attempt)
              /\ (IsSettle(ev[k]) /\ k = n)
                    => \/ ev[k].outcome # "error"
                       \/ ev[k].fallback
              /\ IsWait(ev[k])
                    => (k = n) \/ /\ IsFire(ev[k + 1])
                                  /\ ev[k + 1].attempt = ev[k].attempt
              /\ IsFire(ev[k])
                    => (k = n) \/ /\ IsSelect(ev[k + 1])
                                  /\ ev[k + 1].attempt = ev[k].attempt + 1
        /\ IF n = 0
           THEN \/ c.pc = "idle" /\ c.result = Pending
                \/ c.pc = "select" /\ c.result = Pending /\ m >= 1
                \/ c.pc = "done" /\ c.result = Resolved(-1) /\ m < 1
           ELSE /\ IsSelect(ev[n]) => (c.pc = "invoke" /\ c.result = Pending)
                /\ IsAttemptFetch(ev[n]) => (c.pc = "fetching" /\ c.result = Pending)
                /\ IsFallbackFetch(ev[n]) => (c.pc = "fallback" /\ c.result = Pending)
                /\ IsWait(ev[n])
                      => (c.pc = "waiting" /\ c.result = Pending /\ c.timer = ev[n].ms)
                /\ IsFire(ev[n]) => (c.pc = "select" /\ c.result = Pending)
                /\ IsSettle(ev[n])
                      => /\ c.pc = "done"
                         /\ c.result =
                               CASE ev[n].outcome = "ok" -> Resolved(fetched - 1)
                                 [] ev[n].outcome = "nullish" -> Rejected("TypeError", -1)
                                 [] OTHER ->
                                      Rejected("AllDownloadAttemptsFailed", fetched - 1)
        /\ ~(n > 0 /\ IsWait(ev[n])) => c.timer = 0

\* C16: with two calls interleaved at their awaits, each call's attempt
\* index, provider sequence, backoff delays and outcome are those of a call
\* running alone with its own invocation outcomes: no attempt is skipped,
\* repeated or reordered because of the other call.
C16_CallsIndependent == RunsAlone(Current) /\ RunsAlone(other)

\* C16 witness: one call waits for the timer of its attempt 0 while the
\* other, started later, has its attempt 1 outstanding at another provider
\* position.
C16_Witness ==
    /\ pc = "waiting"
    /\ attempt = 0
    /\ maxAttempts = 2
    /\ other.pc = "fetching"
    /\ other.attempt = 1
    /\ other.maxAttempts = 2
    /\ Len(getActiveProviders) = 2
    /\ other.events[Len(other.events)].provider # events[1].provider

\* C17 (as claimed): once the caller has given up a call during an
\* invocation or a backoff wait, no backoff timer of the call is pending and
\* the call makes no further invocation of downloadFunc.
C17_CancelStops ==
    (abandonedAt >= 0)
    => /\ timer = 0
       /\ \A k \in 1..Len(events) : (k > abandonedAt) => ~IsFetch(events[k])

\* C18 (as claimed): the backoff wait after failed attempt i lasts
\* min(policy.baseDelayMs * 2^i, policy.maxDelayMs), for the policy the
\* caller gave to the call.
C18_DelaysFollowPolicy ==
    \A k \in 1..Len(Waits) :
        LET d == policy.baseDelayMs * (2 ^ Waits[k].attempt)
        IN  Waits[k].ms = IF d < policy.maxDelayMs THEN d ELSE policy.maxDelayMs

\* C18 (amended): the backoff wait after failed attempt i lasts
\* min(1000 * 2^i, 10000) ms whatever delays the caller passes; the only
\* part of a retry policy a caller can set is maxAttempts.
C18_DelaysFixed ==
    /\ policy \in Policies
    /\ \A k \in 1..Len(Waits) :
          /\ Waits[k].attempt = k - 1
          /\ Waits[k].attempt < maxAttempts - 1
          /\ LET d == 1000 * (2 ^ (k - 1))
             IN  Waits[k].ms = IF d < 10000 THEN d ELSE 10000
    /\ (timer > 0) => (Len(Waits) > 0 /\ timer = Waits[Len(Waits)].ms)

\* C18 witness: the caller passed baseDelayMs = 500 and maxDelayMs = 1500;
\* attempts 0 and 1 of a call with maxAttempts = 3 failed and the call waited
\* 1000 ms and now waits 2000 ms.
C18_Witness ==
    /\ policy = [baseDelayMs |-> 500, maxDelayMs |-> 1500]
    /\ maxAttempts = 3
    /\ pc = "waiting"
    /\ timer = 2000
    /\ [k \in 1..Len(Waits) |-> Waits[k].ms] = <<1000, 2000>>

\* Some request is still writing or sending the file.
InUse(f) == \E r \in Requests : req[r].pc \in {"writing", "sending"} /\ req[r].filePath = f

\* C19 (as claimed): every file a download request created is deleted in the
\* end on every path of the request: a file that is in the downloads
\* directory is still being written or sent by a request, or a cleanup timer
\* that will delete it is pending.
C19_FilesCleanedUp ==
    \A f \in FilePaths :
        (files[f] # "absent")
        => \/ InUse(f)
           \/ \E t \in cleanups : t.filePath = f

\* The provider's buildUrl puts the session token into the username.
UsesSessions(n) == n = "smartproxy" \/ (n = "brightdata" /\ ~scraping)

\* C20 (as claimed): the descriptor getProxyWithFallback returns for an
\* attempt carries that attempt's index and a session token generated for it,
\* and for a provider that uses sessions the route URL, as returned and as
\* handed to downloadFunc, has the suffix -session-<token> with that token.
C20_SessionPerAttempt ==
    /\ (pc = "invoke" /\ proxyConfig # NullConfig)
          => /\ proxyConfig.attempt = attempt
             /\ proxyConfig.provider = selectedProvider(attempt)
             /\ proxyConfig.sessionId \in Tokens \ {""}
             /\ UsesSessions(proxyConfig.provider)
                   => proxyConfig.url[2] = proxyConfig.sessionId
    /\ (pc = "fetching" /\ inflight # NullUrl)
          => /\ inflight = proxyConfig.url
             /\ UsesSessions(proxyConfig.provider)
                   => (inflight[2] = proxyConfig.sessionId /\ inflight[2] # "")

\* C21 (as claimed): no logged string shows the password of the proxy URL:
\* in every logged string the password part `:password@` of the URL is
\* redacted or absent, also when the password occurs in the user name, in
\* the scheme or in the host as well.
C21_PasswordNeverLogged ==
    \A l \in logged :
        ~Contains(l, <<":">> \o credentials.password \o <<"@">>)

\* C22: getActiveProviders, getProxyWithFallback and downloadWithRetry leave
\* the provider table as it is: the table has its four entries in every
\* state, and no step of any sequence of calls changes the enabled flag, the
\* priority or the type of a provider.
C22_TableUnchanged ==
    /\ [](/\ DOMAIN enabled = Providers
          /\ DOMAIN priorities = Providers
          /\ DOMAIN types = Providers)
    /\ [][/\ enabled' = enabled
          /\ priorities' = priorities
          /\ types' = types]_vars

\* C22 witness: a call has selected a provider twice (brightdata, whose
\* buildUrl returned null, then freeProxy) and ended, and the table is the
\* one built at load.
C22_Witness ==
    /\ pc = "done"
    /\ ProviderSeq(Selects) = <<"brightdata", "freeProxy">>
    /\ ~RouteAvailable("brightdata")
    /\ listed = <<"brightdata", "freeProxy">>
    /\ enabled = [name \in Providers |-> enabledAtLoad(env, name)]
    /\ priorities = PriorityTable
    /\ types = TypeTable

\* C23 (as claimed): a video-info request gets no response while it is being
\* served and exactly one when it is finished: 400 and no upstream fetch when
\* url is missing or has neither 'youtube.com' nor 'youtu.be' in it; after an
\* upstream fetch either 500 or the success response with its five fields.
C23_OneResponsePerRequest ==
    \A r \in Requests :
        LET q == infoReq[r]
        IN  /\ (q.pc # "finished") => (q.responses = 0)
            /\ (q.pc = "finished")
                  => /\ q.responses = 1
                     /\ (q.url \notin {"youtube.com", "youtu.be"})
                           => (q.status = 400 /\ ~q.fetched)
                     /\ (q.url \in {"youtube.com", "youtu.be"})
                           => /\ q.fetched
                              /\ \/ q.status = 500
                                 \/ q.status = 200 /\ q.body = InfoKeys

C25_RoutesComplete ==
    /\ \A k \in 1..Len(proxyConfig.url) : proxyConfig.url[k] # "undefined"
    /\ (proxyConfig # NullConfig) => FullyConfigured(proxyConfig.provider)
    /\ (pc = "fetching" /\ inflight # NullUrl)
          => /\ Len(inflight) = 5
             /\ inflight[1] # "undefined"
             /\ inflight[3] # "undefined"
             /\ inflight[4] # "undefined"
             /\ inflight[5] # "undefined"

\* C26: a call with maxAttempts <= 0 is over at once: it makes no selection,
\* no invocation of downloadFunc, no wait and no direct fallback, and its
\* promise resolves with undefined.
C26_NoAttemptsResolves ==
    (maxAttempts <= 0)
    => /\ pc \in {"idle", "done"}
       /\ events = <<>>
       /\ Invocations = 0
       /\ timer = 0
       /\ inflight = NullUrl
       /\ proxyConfig = NullConfig
       /\ (pc = "done") => (result = Resolved(-1))

\* C26 witness: downloadWithRetry(downloadFunc, -1) has returned.
C26_Witness ==
    /\ pc = "done"
    /\ maxAttempts = -1
    /\ ~omitted
    /\ events = <<>>
    /\ result = Resolved(-1)

\* C27 (as claimed): when two download requests build the same file name, a
\* file that a request is still writing or sending is in the downloads
\* directory (no cleanup timer of the other request has deleted it), and no
\* request is sending a file that the other request is writing.
C27_NoInterference ==
    /\ \A f \in FilePaths : InUse(f) => (files[f] # "absent")
    /\ \A r, q \in Requests :
          ~(/\ r # q
            /\ req[r].pc = "sending"
            /\ req[q].pc = "writing"
            /\ req[r].filePath = req[q].filePath)

\* The invocations and the waits of a history, in order.
IsFetchOrWait(e) == e.kind \in {"fetch", "wait"}

\* C28 (as claimed): for the same environment, the same maxAttempts and the
\* same outcome of every downloadFunc invocation, the second copy of the
\* orchestrator makes the invocations (attempt, provider, routed or direct)
\* and the waits the first copy makes, in the same order, and its call
\* settles as the first copy's does.
C28_CopiesAgree ==
    CaughtUp =>
        /\ SelectSeq(other.events, IsFetchOrWait) = SelectSeq(events, IsFetchOrWait)
        /\ other.result = result

\* The list of enabled providers is never empty: freeProxy is always enabled.
ProvidersNeverEmpty == Len(getActiveProviders) >= 1 /\ enabled["freeProxy"]

====
